---------------------------- MODULE Spec2Model ----------------------------
(***************************************************************************)
(* A model of the trip optimizer of fsstock (core/optimizer.py).           *)
(*                                                                         *)
(* Units.  Quantities are litres.  Money is held in thousandths of a euro, *)
(* so that the price per litre the code computes, price_per_1000 / 1000.0  *)
(* euro, is the number price_per_1000 itself, and the value of a trip of   *)
(* q litres is q * price_per_1000.  target_eur is in the same unit.        *)
(*                                                                         *)
(* Arithmetic.  Every number of the code is a Python float.  A float       *)
(* operation returns the exact result rounded to the significand width,    *)
(* ties to even: Fl below.  The width is the variable mant, fixed by the   *)
(* initial state: Spec runs at the width of binary64, at which every       *)
(* amount within the bounds is exact; SpecFloat runs the same code at a    *)
(* reduced width, which brings the inputs on which an operation rounds     *)
(* within the bounds.                                                      *)
(*                                                                         *)
(* Product identifiers are the naturals 1, 2, ..., ordered as the code     *)
(* orders its identifier strings.                                          *)
(***************************************************************************)
EXTENDS Integers, Sequences, FiniteSets, TLC

VARIABLES
    products,     \* the list of OptProduct passed to optimize_min_trips
    target_eur,   \* the target passed to optimize_min_trips
    mant,         \* significand width of the float arithmetic
    returned,     \* the plans the earlier calls on these arguments returned
    pc,           \* position in optimize_min_trips
    st,           \* the per-product state (a dict in insertion order)
    K,            \* the minimum number of trips
    step,         \* the loop variable of the construction loop
    total,        \* revenue accumulated by the construction loop
    trips_used,   \* trips committed by the construction loop
    chosen,       \* history: the candidates committed, as they were chosen
    sims,         \* history: the trips of every simulation run so far
    plan,         \* the TripPlan returned
    app,          \* the FSStockApp: its farms, the loaded farm and the catalogs
    raised        \* a handler of the application has raised

vars == <<products, target_eur, mant, returned, pc, st, K, step, total, trips_used,
          chosen, sims, plan, app, raised>>

\* the variables of the application
appvars == <<app, raised>>

\* the variables of a call of optimize_min_trips
optvars == <<products, target_eur, returned, pc, st, K, step, total, trips_used,
             chosen, sims, plan>>

---------------------------------------------------------------------------
(* Bounds of the model *)

ProductIds == {1, 2}
MaxStock == 3
MaxKeep == 1
MaxCap == 2
MaxPrice == 2
MaxTarget == 4

(* Bounds of the reduced-width runs *)
FloatBits == 3
FloatMaxStock == 4
FloatMaxCap == 1
FloatMaxPrice == 3
FloatMaxTarget == 14

(* Program constants *)
\* a stock and a capacity whose full trips do not add up, at FloatBits, to
\* what they multiply to
DriftStock == 20
DriftCap == 3
DriftMaxPrice == 3
DriftMaxTarget == 56

Binary64Bits == 53
AllTrips == 1000000000

---------------------------------------------------------------------------
(* Float arithmetic *)

RECURSIVE Bits(_)
Bits(x) == IF x = 0 THEN 0 ELSE 1 + Bits(x \div 2)

RECURSIVE Pow2(_)
Pow2(n) == IF n = 0 THEN 1 ELSE 2 * Pow2(n - 1)

\* x >= 0 rounded to w significant bits, ties to even
RoundNat(x, w) ==
    IF Bits(x) <= w THEN x
    ELSE LET u == Pow2(Bits(x) - w)
             q == x \div u
             r == x % u
             half == u \div 2
             up == (r > half) \/ (r = half /\ q % 2 = 1)
         IN  (IF up THEN q + 1 ELSE q) * u

FlW(x, w) == IF x < 0 THEN 0 - RoundNat(0 - x, w) ELSE RoundNat(x, w)

Fl(x) == FlW(x, mant)


---------------------------------------------------------------------------
(* Helpers on sequences and dicts (a dict is the sequence of its values in *)
(* insertion order, keyed by the field product_id)                         *)

RECURSIVE SumSeq(_)
SumSeq(s) == IF s = <<>> THEN 0 ELSE s[1] + SumSeq(Tail(s))

Keys(d) == {d[i].product_id : i \in 1..Len(d)}

Index(d, pid) == CHOOSE i \in 1..Len(d) : d[i].product_id = pid

Get(d, pid) == d[Index(d, pid)]

\* d[pid] = info
Put(d, pid, info) ==
    IF pid \in Keys(d) THEN [d EXCEPT ![Index(d, pid)] = info]
    ELSE Append(d, info)

---------------------------------------------------------------------------
(* _init_state *)

\* the filter without the enabled flag
EligibleIgnoresEnabled(pr) ==
    ~(pr.cap_per_trip_l <= 0 \/ pr.stock_l <= pr.min_keep_l)

\* the filter on the stock alone, the quantity to keep left out
EligibleKeepIgnored(pr) ==
    ~(~pr.enabled \/ pr.cap_per_trip_l <= 0 \/ pr.stock_l <= 0)

Eligible(pr) ==
    ~(~pr.enabled \/ pr.cap_per_trip_l <= 0 \/ pr.stock_l <= pr.min_keep_l)

InitInfo(pr) ==
    LET sellable_l == Fl(pr.stock_l - pr.min_keep_l)
        p_per_l == pr.price_per_1000
        cap_l == pr.cap_per_trip_l
        m_full == sellable_l \div cap_l
        rem_l == Fl(sellable_l - Fl(m_full * cap_l))
    IN  [product_id |-> pr.product_id,
         stock_l |-> pr.stock_l,
         min_keep_l |-> pr.min_keep_l,
         cap |-> cap_l,
         p_per_l |-> p_per_l,
         sellable_l |-> sellable_l,
         remaining_full |-> m_full,
         rem_l |-> rem_l,
         last_used |-> FALSE,
         sold_l |-> 0,
         chosen_full |-> 0,
         chosen_last |-> FALSE]

RECURSIVE InitStateFrom(_, _)
InitStateFrom(prods, acc) ==
    IF prods = <<>> THEN acc
    ELSE LET pr == Head(prods)
         IN  IF ~Eligible(pr) THEN InitStateFrom(Tail(prods), acc)
             ELSE InitStateFrom(Tail(prods), Put(acc, pr.product_id, InitInfo(pr)))

_init_state(prods) == InitStateFrom(prods, <<>>)

---------------------------------------------------------------------------
(* _candidate_for_max_revenue: <<value_eur, pid, kind>>, or <<>> for None *)

\* a candidate function that forgets the last (partial) trip
CandidateFullOnly(info) ==
    IF info.remaining_full > 0
    THEN <<Fl(info.cap * info.p_per_l), info.product_id, "full">>
    ELSE <<>>

\* a candidate function that offers the last trip while full trips remain
CandidateLastFirst(info) ==
    IF info.rem_l > 0 /\ ~info.last_used
    THEN <<Fl(info.rem_l * info.p_per_l), info.product_id, "last">>
    ELSE IF info.remaining_full > 0
         THEN <<Fl(info.cap * info.p_per_l), info.product_id, "full">>
         ELSE <<>>

_candidate_for_max_revenue(info) ==
    IF info.remaining_full > 0
    THEN <<Fl(info.cap * info.p_per_l), info.product_id, "full">>
    ELSE IF info.rem_l > 0 /\ ~info.last_used
         THEN <<Fl(info.rem_l * info.p_per_l), info.product_id, "last">>
         ELSE <<>>

---------------------------------------------------------------------------
(* heapq on tuples <<-val, pid, kind>>.  The heap is held as the set of    *)
(* its entries: heappop removes and returns the least entry in the order   *)
(* of Python tuples.                                                       *)

KindLess(a, b) == a = "full" /\ b = "last"

EntryLess(a, b) ==
    \/ a[1] < b[1]
    \/ a[1] = b[1] /\ a[2] < b[2]
    \/ a[1] = b[1] /\ a[2] = b[2] /\ KindLess(a[3], b[3])

\* a pop that returns the greatest entry, the least valuable trip
HeapTopGreatest(heap) == CHOOSE a \in heap : \A b \in heap : ~EntryLess(a, b)

HeapTop(heap) == CHOOSE a \in heap : \A b \in heap : ~EntryLess(b, a)

HeapPush(heap, cand) ==
    IF cand = <<>> THEN heap
    ELSE heap \cup {<<0 - cand[1], cand[2], cand[3]>>}

\* the heap built from the first candidate of every product of tmp
FirstHeap(tmp) ==
    {<<0 - _candidate_for_max_revenue(tmp[i])[1], tmp[i].product_id,
       _candidate_for_max_revenue(tmp[i])[3]>> :
        i \in {j \in 1..Len(tmp) : _candidate_for_max_revenue(tmp[j]) # <<>>}}

\* the copy of the state a simulation works on
TmpCopy(s) ==
    [i \in 1..Len(s) |->
        [remaining_full |-> s[i].remaining_full,
         rem_l |-> s[i].rem_l,
         last_used |-> s[i].last_used,
         cap |-> s[i].cap,
         p_per_l |-> s[i].p_per_l,
         product_id |-> s[i].product_id]]

\* the update of a popped trip on its product
Consume(info, kind) ==
    IF kind = "full"
    THEN [info EXCEPT !.remaining_full = info.remaining_full - 1]
    ELSE [info EXCEPT !.last_used = TRUE]

\* what a simulation records of a trip it takes
Pick(info, kind, val) ==
    [product_id |-> info.product_id, kind |-> kind, value |-> val,
     remaining_full |-> info.remaining_full, last_used |-> info.last_used]

---------------------------------------------------------------------------
(* _min_trips_needed: the loop, and the function.  The loop returns the    *)
(* total, the number of trips and the trips taken.                         *)

\* a loop that pops the most valuable trip that does not overshoot the target,
\* when there is one
RECURSIVE MinTripsBestFit(_, _, _, _, _, _)
MinTripsBestFit(tmp, heap, tot, trips, picks, target) ==
    IF ~(heap # {} /\ tot < target)
    THEN [total |-> tot, trips |-> trips, picks |-> picks]
    ELSE LET fits == {e \in heap : tot + (0 - e[1]) <= target}
             top == IF fits # {} THEN HeapTop(fits) ELSE HeapTop(heap)
             val == 0 - top[1]
             pid == top[2]
             kind == top[3]
             info == Get(tmp, pid)
             info2 == Consume(info, kind)
         IN  MinTripsBestFit(Put(tmp, pid, info2),
                             HeapPush(heap \ {top}, _candidate_for_max_revenue(info2)),
                             Fl(tot + val), trips + 1,
                             Append(picks, Pick(info, kind, val)), target)

RECURSIVE MinTripsLoop(_, _, _, _, _, _)
MinTripsLoop(tmp, heap, tot, trips, picks, target) ==
    IF ~(heap # {} /\ tot < target)
    THEN [total |-> tot, trips |-> trips, picks |-> picks]
    ELSE LET top == HeapTop(heap)
             val == 0 - top[1]
             pid == top[2]
             kind == top[3]
             info == Get(tmp, pid)
             info2 == Consume(info, kind)
         IN  MinTripsLoop(Put(tmp, pid, info2),
                          HeapPush(heap \ {top}, _candidate_for_max_revenue(info2)),
                          Fl(tot + val), trips + 1,
                          Append(picks, Pick(info, kind, val)), target)

MinTripsRun(s, target) ==
    LET tmp == TmpCopy(s) IN MinTripsLoop(tmp, FirstHeap(tmp), 0, 0, <<>>, target)

None == -1

\* a final test that takes a total equal to the target as a miss
MinTripsStrict(s, target) ==
    IF target <= 0 THEN 0
    ELSE LET run == MinTripsRun(s, target)
         IN  IF run.total <= target THEN None ELSE run.trips

_min_trips_needed(s, target) ==
    IF target <= 0 THEN 0
    ELSE LET run == MinTripsRun(s, target)
         IN  IF run.total < target THEN None ELSE run.trips

---------------------------------------------------------------------------
(* _max_revenue_possible *)

\* a loop that stops one trip late
RECURSIVE MaxRevenueOneMore(_, _, _, _, _, _)
MaxRevenueOneMore(tmp, heap, tot, used, picks, trips_left) ==
    IF ~(heap # {} /\ used <= trips_left)
    THEN [total |-> tot, used |-> used, picks |-> picks]
    ELSE LET top == HeapTop(heap)
             val == 0 - top[1]
             pid == top[2]
             kind == top[3]
             info == Get(tmp, pid)
             info2 == Consume(info, kind)
         IN  MaxRevenueOneMore(Put(tmp, pid, info2),
                               HeapPush(heap \ {top}, _candidate_for_max_revenue(info2)),
                               Fl(tot + val), used + 1,
                               Append(picks, Pick(info, kind, val)), trips_left)

RECURSIVE MaxRevenueLoop(_, _, _, _, _, _)
MaxRevenueLoop(tmp, heap, tot, used, picks, trips_left) ==
    IF ~(heap # {} /\ used < trips_left)
    THEN [total |-> tot, used |-> used, picks |-> picks]
    ELSE LET top == HeapTop(heap)
             val == 0 - top[1]
             pid == top[2]
             kind == top[3]
             info == Get(tmp, pid)
             info2 == Consume(info, kind)
         IN  MaxRevenueLoop(Put(tmp, pid, info2),
                            HeapPush(heap \ {top}, _candidate_for_max_revenue(info2)),
                            Fl(tot + val), used + 1,
                            Append(picks, Pick(info, kind, val)), trips_left)

MaxRevenueRun(s, trips_left) ==
    LET tmp == TmpCopy(s) IN MaxRevenueLoop(tmp, FirstHeap(tmp), 0, 0, <<>>, trips_left)

_max_revenue_possible(s, trips_left) ==
    IF trips_left <= 0 THEN 0 ELSE MaxRevenueRun(s, trips_left).total

---------------------------------------------------------------------------
(* optimize_min_trips: one step of the construction loop *)

\* a last trip that is loaded with a full capacity
StepTripFullLast(info) ==
    IF info.remaining_full > 0
    THEN [kind |-> "full", sold |-> info.cap, value |-> Fl(info.cap * info.p_per_l)]
    ELSE IF (info.rem_l > 0) /\ (~info.last_used)
         THEN [kind |-> "last", sold |-> info.cap,
               value |-> Fl(info.cap * info.p_per_l)]
         ELSE <<>>

\* the partial trip offered before the full trips
StepTripLastFirst(info) ==
    IF (info.rem_l > 0) /\ (~info.last_used)
    THEN [kind |-> "last", sold |-> info.rem_l,
          value |-> Fl(info.rem_l * info.p_per_l)]
    ELSE IF info.remaining_full > 0
         THEN [kind |-> "full", sold |-> info.cap,
               value |-> Fl(info.cap * info.p_per_l)]
         ELSE <<>>

\* the trip a product offers at a step: [kind, sold, value], or <<>>
StepTrip(info) ==
    IF info.remaining_full > 0
    THEN [kind |-> "full", sold |-> info.cap, value |-> Fl(info.cap * info.p_per_l)]
    ELSE IF (info.rem_l > 0) /\ (~info.last_used)
         THEN [kind |-> "last", sold |-> info.rem_l,
               value |-> Fl(info.rem_l * info.p_per_l)]
         ELSE <<>>

\* what is left to sell, the quantity to keep not counted
RemainingSellableAfter(info, sold) == Fl(Fl(info.sellable_l - info.sold_l) - sold)

remaining_stock_after(info, sold) == Fl(Fl(info.stock_l - info.sold_l) - sold)

\* st_temp: the copy of the state with the trip applied
st_temp(s, info, kind) ==
    Put(s, info.product_id,
        IF kind = "full"
        THEN [info EXCEPT !.remaining_full = info.remaining_full - 1]
        ELSE [info EXCEPT !.last_used = TRUE])

\* the revenue of every trip left, whatever the number of trips after the step
MaxFutureUnbounded(s, info, kind, trips_left_after) ==
    _max_revenue_possible(st_temp(s, info, kind), AllTrips)

max_future(s, info, kind, trips_left_after) ==
    _max_revenue_possible(st_temp(s, info, kind), trips_left_after)

\* the feasibility check left out: no candidate is skipped
GuardOmitted(tot, value, future, target) == FALSE

\* the feasibility check: TRUE when the candidate is skipped
Infeasible(tot, value, future, target) == Fl(Fl(tot + value) + future) < target

\* the comparison without the identifier: of equal candidates the first stays
KeyGreaterNoPid(a, b) ==
    \/ a[1] > b[1]
    \/ a[1] = b[1] /\ a[2] > b[2]

\* a comparison under which, of equal candidates, the lower identifier wins
KeyGreaterLowPid(a, b) ==
    \/ a[1] > b[1]
    \/ a[1] = b[1] /\ a[2] > b[2]
    \/ a[1] = b[1] /\ a[2] = b[2] /\ a[3] < b[3]

\* a comparison on the value first, the remaining stock second
KeyGreaterValueFirst(a, b) ==
    \/ a[2] > b[2]
    \/ a[2] = b[2] /\ a[1] > b[1]
    \/ a[2] = b[2] /\ a[1] = b[1] /\ a[3] > b[3]

\* key > best_key on tuples (remaining_stock_after, value, pid)
KeyGreater(a, b) ==
    \/ a[1] > b[1]
    \/ a[1] = b[1] /\ a[2] > b[2]
    \/ a[1] = b[1] /\ a[2] = b[2] /\ a[3] > b[3]

\* the candidates loop from product i on; best is [key, choice] or <<>>
RECURSIVE BestFrom(_, _, _, _, _, _)
BestFrom(s, i, best, tot, trips_left_after, target) ==
    IF i > Len(s) THEN best
    ELSE LET info == s[i]
             trip == StepTrip(info)
         IN  IF trip = <<>>
             THEN BestFrom(s, i + 1, best, tot, trips_left_after, target)
             ELSE IF Infeasible(tot, trip.value,
                                max_future(s, info, trip.kind, trips_left_after),
                                target)
             THEN BestFrom(s, i + 1, best, tot, trips_left_after, target)
             ELSE LET key == <<remaining_stock_after(info, trip.sold), trip.value,
                                info.product_id>>
                      new == [key |-> key,
                              pid |-> info.product_id, kind |-> trip.kind,
                              sold |-> trip.sold, value |-> trip.value]
                  IN  IF best = <<>> \/ KeyGreater(key, best.key)
                      THEN BestFrom(s, i + 1, new, tot, trips_left_after, target)
                      ELSE BestFrom(s, i + 1, best, tot, trips_left_after, target)

\* the trips of the simulations the candidates loop runs
StepSimulations(s, trips_left_after) ==
    {MaxRevenueRun(st_temp(s, s[i], StepTrip(s[i]).kind), trips_left_after).picks :
        i \in {j \in 1..Len(s) : StepTrip(s[j]) # <<>> /\ trips_left_after > 0}}

best_choice(s, tot, trips_left_after, target) ==
    BestFrom(s, 1, <<>>, tot, trips_left_after, target)

\* the choice applied to the actual state
Commit(info, choice) ==
    IF choice.kind = "full"
    THEN [info EXCEPT !.sold_l = Fl(info.sold_l + choice.sold),
                      !.chosen_full = info.chosen_full + 1,
                      !.remaining_full = info.remaining_full - 1]
    ELSE [info EXCEPT !.sold_l = Fl(info.sold_l + choice.sold),
                      !.chosen_last = TRUE,
                      !.last_used = TRUE]

---------------------------------------------------------------------------
(* The dicts behind the states.  A state is a dict of dicts: the inner     *)
(* dicts are objects, here cells of a store, and a state is the sequence   *)
(* of the cells of its products.  A write through a state reaches the cell *)
(* and every state that holds it.                                          *)

\* the copies share the cells of the state they are taken from
SameDicts(store, refs) == [store |-> store, refs |-> refs]

\* {pid: {...} for pid, info in st.items()} and {k: v.copy() ...}: a new cell
\* for every product, with the content of the old one
NewDicts(store, refs) ==
    [store |-> store \o [i \in 1..Len(refs) |-> store[refs[i]]],
     refs |-> [i \in 1..Len(refs) |-> Len(store) + i]]

\* the state read through its cells
Deref(store, refs) == [i \in 1..Len(refs) |-> store[refs[i]]]

\* info["remaining_full"] -= 1, or info["last_used"] = True, on a cell
WriteTrip(store, ref, kind) == [store EXCEPT ![ref] = Consume(store[ref], kind)]

\* the writes of a simulation, trip by trip, on the cells of its tmp
RECURSIVE WritePicks(_, _, _)
WritePicks(store, refs, picks) ==
    IF picks = <<>> THEN store
    ELSE WritePicks(
            WriteTrip(store,
                      refs[Index(Deref(store, refs), Head(picks).product_id)],
                      Head(picks).kind),
            refs, Tail(picks))

\* the store after a simulation on the state at refs: tmp is built, then
\* written
StoreAfterSimulation(store, refs, picks) ==
    LET tmp == NewDicts(store, refs) IN WritePicks(tmp.store, tmp.refs, picks)

\* the store after the candidates loop from product i on: for every
\* candidate st_temp is built, the trip is written to it and
\* _max_revenue_possible is run on it
RECURSIVE StoreAfterProbes(_, _, _, _)
StoreAfterProbes(store, refs, i, trips_left_after) ==
    IF i > Len(refs) THEN store
    ELSE LET info == store[refs[i]]
             trip == StepTrip(info)
         IN  IF trip = <<>>
             THEN StoreAfterProbes(store, refs, i + 1, trips_left_after)
             ELSE LET temp == NewDicts(store, refs)
                      written == WriteTrip(temp.store, temp.refs[i], trip.kind)
                      after ==
                          IF trips_left_after <= 0 THEN written
                          ELSE StoreAfterSimulation(written, temp.refs,
                                  MaxRevenueRun(Deref(written, temp.refs),
                                                trips_left_after).picks)
                  IN  StoreAfterProbes(after, refs, i + 1, trips_left_after)

\* the cells of a state that is the only holder of its dicts
OwnRefs(s) == [i \in 1..Len(s) |-> i]

\* st after _min_trips_needed(st, target) and, if asked,
\* _max_revenue_possible(st, 10**9)
RECURSIVE StAfterSimulations(_, _)
StAfterSimulations(s, runs) ==
    IF runs = <<>> THEN s
    ELSE StAfterSimulations(
            Deref(StoreAfterSimulation(s, OwnRefs(s), Head(runs)), OwnRefs(s)),
            Tail(runs))

\* st after the candidates loop of a step
StAfterProbes(s, trips_left_after) ==
    Deref(StoreAfterProbes(s, OwnRefs(s), 1, trips_left_after), OwnRefs(s))

---------------------------------------------------------------------------
(* optimize_min_trips: the plan lines and their order *)

Line(info) ==
    [product_id |-> info.product_id,
     full_trips |-> info.chosen_full,
     last_partial_used |-> info.chosen_last,
     sold_l |-> info.sold_l,
     revenue_eur |-> Fl(info.sold_l * info.p_per_l)]

RECURSIVE BuildLines(_)
BuildLines(s) ==
    IF s = <<>> THEN <<>>
    ELSE IF Head(s).chosen_full = 0 /\ ~Head(s).chosen_last
         THEN BuildLines(Tail(s))
         ELSE <<Line(Head(s))>> \o BuildLines(Tail(s))

LineTrips(x) == x.full_trips + (IF x.last_partial_used THEN 1 ELSE 0)

\* the sort key of a line
LineKey(x) == <<0 - LineTrips(x), 0 - x.sold_l, x.product_id>>

KeyLess(a, b) ==
    \/ a[1] < b[1]
    \/ a[1] = b[1] /\ a[2] < b[2]
    \/ a[1] = b[1] /\ a[2] = b[2] /\ a[3] < b[3]

\* list.sort is stable: x goes after every line whose key is not greater
RECURSIVE InsertLine(_, _)
InsertLine(sorted, x) ==
    IF sorted = <<>> THEN <<x>>
    ELSE IF KeyLess(LineKey(x), LineKey(Head(sorted)))
         THEN <<x>> \o sorted
         ELSE <<Head(sorted)>> \o InsertLine(Tail(sorted), x)

\* the lines left in the order they were built in
LinesAsBuilt(lines) == lines

RECURSIVE SortLines(_)
SortLines(lines) ==
    IF lines = <<>> THEN <<>>
    ELSE InsertLine(SortLines(SubSeq(lines, 1, Len(lines) - 1)), lines[Len(lines)])

---------------------------------------------------------------------------
(* TripPlan *)

NoReason == "None"

TripPlan(feasible, target, revenue, trips, lines, reason) ==
    [feasible |-> feasible, target_eur |-> target, total_revenue_eur |-> revenue,
     total_trips |-> trips, lines |-> lines, reason |-> reason]

NotReturned == TripPlan(FALSE, 0, 0, 0, <<>>, NoReason)

---------------------------------------------------------------------------
(* TripPlan.to_dict, TripPlan.from_dict and those of TripPlanLine.  A      *)
(* Python value is a record of its type and its value; a float carries the *)
(* number of model units that make one (1 for litres, 1000 for euros), a   *)
(* dict is a function of its keys.                                         *)

PyNone == [type |-> "NoneType"]
PyBool(b) == [type |-> "bool", value |-> b]
PyInt(n) == [type |-> "int", value |-> n]
PyFloat(x, unit) == [type |-> "float", value |-> x, unit |-> unit]
PyStr(s) == [type |-> "str", value |-> s]
PyList(l) == [type |-> "list", value |-> l]
PyDict(d) == [type |-> "dict", value |-> d]

Litres == 1
Euros == 1000

\* d.get(key, default)
DictGet(d, key, default) == IF key \in DOMAIN d THEN d[key] ELSE default

\* bool(v): the truth value
bool(v) ==
    CASE v.type = "bool" -> v.value
      [] v.type = "int" -> v.value # 0
      [] v.type = "float" -> v.value # 0
      [] v.type = "str" -> v.value # ""
      [] v.type = "list" -> v.value # <<>>
      [] v.type = "dict" -> DOMAIN v.value # {}
      [] OTHER -> FALSE

\* int(v): of a float the whole part, toward zero
int(v) ==
    CASE v.type = "int" -> v.value
      [] v.type = "bool" -> IF v.value THEN 1 ELSE 0
      [] v.type = "float" ->
            IF v.value >= 0 THEN v.value \div v.unit
            ELSE 0 - ((0 - v.value) \div v.unit)

\* float(v) in the units of the field it is stored in
float(v, unit) ==
    CASE v.type = "float" -> (v.value * unit) \div v.unit
      [] v.type = "int" -> v.value * unit
      [] v.type = "bool" -> IF v.value THEN unit ELSE 0

\* str(v)
str(v) ==
    CASE v.type = "str" -> v.value
      [] v.type = "NoneType" -> "None"
      [] v.type = "bool" -> IF v.value THEN "True" ELSE "False"

\* the reason field: None, or a string
PyReason(reason) == IF reason = NoReason THEN PyNone ELSE PyStr(reason)

ReasonOf(v) == IF v.type = "NoneType" THEN NoReason ELSE v.value

TripPlanLine_to_dict(x) ==
    [product_id |-> PyStr(x.product_id),
     full_trips |-> PyInt(x.full_trips),
     last_partial_used |-> PyBool(x.last_partial_used),
     sold_l |-> PyFloat(x.sold_l, Litres),
     revenue_eur |-> PyFloat(x.revenue_eur, Euros)]

TripPlanLine_from_dict(d) ==
    [product_id |-> str(DictGet(d, "product_id", PyStr(""))),
     full_trips |-> int(DictGet(d, "full_trips", PyInt(0))),
     last_partial_used |-> bool(DictGet(d, "last_partial_used", PyBool(FALSE))),
     sold_l |-> float(DictGet(d, "sold_l", PyFloat(0, Litres)), Litres),
     revenue_eur |-> float(DictGet(d, "revenue_eur", PyFloat(0, Euros)), Euros)]

TripPlan_to_dict(p) ==
    [feasible |-> PyBool(p.feasible),
     target_eur |-> PyFloat(p.target_eur, Euros),
     total_revenue_eur |-> PyFloat(p.total_revenue_eur, Euros),
     total_trips |-> PyInt(p.total_trips),
     lines |-> PyList([i \in 1..Len(p.lines) |->
                          PyDict(TripPlanLine_to_dict(p.lines[i]))]),
     reason |-> PyReason(p.reason)]

\* lines_raw = d.get("lines", []) or []; the dicts among them
LinesRaw(d, key) ==
    LET got == DictGet(d, key, PyList(<<>>))
    IN  IF bool(got) THEN got.value ELSE <<>>

LinesFromRaw(raw) ==
    LET dicts == SelectSeq(raw, LAMBDA x : x.type = "dict")
    IN  [i \in 1..Len(dicts) |-> TripPlanLine_from_dict(dicts[i].value)]

\* a from_dict that looks the lines up under another key
TripPlanFromDictOtherKey(d) ==
    [feasible |-> bool(DictGet(d, "feasible", PyBool(FALSE))),
     target_eur |-> float(DictGet(d, "target_eur", PyFloat(0, Euros)), Euros),
     total_revenue_eur |->
        float(DictGet(d, "total_revenue_eur", PyFloat(0, Euros)), Euros),
     total_trips |-> int(DictGet(d, "total_trips", PyInt(0))),
     lines |-> LinesFromRaw(LinesRaw(d, "plan_lines")),
     reason |-> ReasonOf(DictGet(d, "reason", PyNone))]

TripPlan_from_dict(d) ==
    [feasible |-> bool(DictGet(d, "feasible", PyBool(FALSE))),
     target_eur |-> float(DictGet(d, "target_eur", PyFloat(0, Euros)), Euros),
     total_revenue_eur |->
        float(DictGet(d, "total_revenue_eur", PyFloat(0, Euros)), Euros),
     total_trips |-> int(DictGet(d, "total_trips", PyInt(0))),
     lines |-> LinesFromRaw(LinesRaw(d, "lines")),
     reason |-> ReasonOf(DictGet(d, "reason", PyNone))]

---------------------------------------------------------------------------
(* The inputs *)

OptProduct(pid, stock, keep, cap, price, enabled) ==
    [product_id |-> pid, stock_l |-> stock, min_keep_l |-> keep,
     cap_per_trip_l |-> cap, price_per_1000 |-> price, enabled |-> enabled]

\* the products the lists are drawn from: every enabled product within the
\* ranges, and one disabled product that would be eligible if enabled
Products(pid, stocks, keeps, caps, prices) ==
    {OptProduct(pid, s, k, c, p, TRUE) :
        s \in stocks, k \in keeps, c \in caps, p \in prices}

Disabled(pid, stock, cap, price) == {OptProduct(pid, stock, 0, cap, price, FALSE)}

\* the lists of products with identifiers 1..m in order, product i from choice[i]
RECURSIVE ListsOf(_, _)
ListsOf(m, choice) ==
    IF m = 0 THEN {<<>>}
    ELSE {Append(l, pr) : l \in ListsOf(m - 1, choice), pr \in choice[m]}

ProductLists(choice) == UNION {ListsOf(m, choice) : m \in 0..Cardinality(ProductIds)}

\* the locals of a call as it starts; no application around the call
InitCall ==
    /\ app = <<>>
    /\ raised = FALSE
    /\ pc = "start"
    /\ st = <<>>
    /\ K = 0
    /\ step = 0
    /\ total = 0
    /\ trips_used = 0
    /\ chosen = <<>>
    /\ sims = {}
    /\ plan = NotReturned

Init ==
    /\ mant = Binary64Bits
    /\ returned = <<>>
    /\ products \in ProductLists(
            [pid \in ProductIds |->
                Products(pid, 0..MaxStock, 0..MaxKeep, 0..MaxCap, 0..MaxPrice)
                \cup Disabled(pid, MaxStock, MaxCap, MaxPrice)])
    /\ target_eur \in (-1)..MaxTarget
    /\ InitCall

InitFloat ==
    /\ mant = FloatBits
    /\ returned = <<>>
    /\ products \in ProductLists(
            [pid \in ProductIds |->
                Products(pid, 0..FloatMaxStock, {0}, 0..FloatMaxCap, 0..FloatMaxPrice)])
    /\ target_eur \in {t \in 0..FloatMaxTarget : FlW(t, FloatBits) = t}
    /\ InitCall

\* products of many trips each, in the reduced width
InitDrift ==
    /\ mant = FloatBits
    /\ returned = <<>>
    /\ products \in ProductLists(
            [pid \in ProductIds |->
                Products(pid, {s \in {0, DriftStock} : FlW(s, FloatBits) = s}, {0},
                         {0, DriftCap}, 0..DriftMaxPrice)])
    /\ target_eur \in {t \in 0..DriftMaxTarget : FlW(t, FloatBits) = t}
    /\ InitCall

---------------------------------------------------------------------------
(* optimize_min_trips *)

Return(p) ==
    /\ plan' = p
    /\ pc' = "done"

\* a no-target report that carries the revenue the products could make
NoTargetReportsMax ==
    /\ pc = "start"
    /\ target_eur <= 0
    /\ Return(TripPlan(FALSE, target_eur,
                       _max_revenue_possible(_init_state(products), AllTrips),
                       0, <<>>, "objective.plan_info.no_plan"))
    /\ UNCHANGED <<products, target_eur, mant, returned, st, K, step, total,
                   trips_used, chosen, sims>>
    /\ UNCHANGED appvars

\* target <= 0
NoTarget ==
    /\ pc = "start"
    /\ target_eur <= 0
    /\ Return(TripPlan(FALSE, target_eur, 0, 0, <<>>, "objective.plan_info.no_plan"))
    /\ UNCHANGED <<products, target_eur, mant, returned, st, K, step, total,
                   trips_used, chosen, sims>>
    /\ UNCHANGED appvars

\* the no-products report made before the target is looked at
NoProductsFirst ==
    /\ pc = "start"
    /\ _init_state(products) = <<>>
    /\ Return(TripPlan(FALSE, target_eur, 0, 0, <<>>,
                       "objective.plan_info.no_products"))
    /\ UNCHANGED <<products, target_eur, mant, returned, st, K, step, total,
                   trips_used, chosen, sims>>
    /\ UNCHANGED appvars

\* no eligible product
NoProducts ==
    /\ pc = "start"
    /\ ~(target_eur <= 0)
    /\ _init_state(products) = <<>>
    /\ Return(TripPlan(FALSE, target_eur, 0, 0, <<>>,
                       "objective.plan_info.no_products"))
    /\ UNCHANGED <<products, target_eur, mant, returned, st, K, step, total,
                   trips_used, chosen, sims>>
    /\ UNCHANGED appvars

\* K is None
NotReachedQuota ==
    /\ pc = "start"
    /\ ~(target_eur <= 0)
    /\ \E s0 \in {_init_state(products)} :
        /\ s0 # <<>>
        /\ _min_trips_needed(s0, target_eur) = None
        /\ st' = StAfterSimulations(s0, <<MinTripsRun(s0, target_eur).picks,
                                          MaxRevenueRun(s0, AllTrips).picks>>)
        /\ K' = None
        /\ Return(TripPlan(FALSE, target_eur, _max_revenue_possible(s0, AllTrips),
                           0, <<>>, "objective.plan_info.not_reached_quota"))
        /\ sims' = {MinTripsRun(s0, target_eur).picks, MaxRevenueRun(s0, AllTrips).picks}
    /\ UNCHANGED <<products, target_eur, mant, returned, step, total, trips_used, chosen>>
    /\ UNCHANGED appvars

\* K trips are needed: enter the construction loop
MinTrips ==
    /\ pc = "start"
    /\ ~(target_eur <= 0)
    /\ \E s0 \in {_init_state(products)} :
        /\ s0 # <<>>
        /\ \E k \in {_min_trips_needed(s0, target_eur)} :
            /\ k # None
            /\ st' = StAfterSimulations(s0, <<MinTripsRun(s0, target_eur).picks>>)
            /\ K' = k
            /\ sims' = {MinTripsRun(s0, target_eur).picks}
    /\ total' = 0
    /\ trips_used' = 0
    /\ step' = 1
    /\ pc' = "construct"
    /\ UNCHANGED <<products, target_eur, mant, returned, chosen, plan>>
    /\ UNCHANGED appvars

\* one iteration of the construction loop; unpacking best_choice = None raises
Construct ==
    /\ pc = "construct"
    /\ step <= K
    /\ \E best \in {best_choice(st, total, K - step, target_eur)} :
           IF best = <<>>
           THEN /\ pc' = "raised"
                /\ UNCHANGED <<st, total, trips_used, step, chosen>>
           ELSE /\ \E probed \in {StAfterProbes(st, K - step)} :
                      st' = Put(probed, best.pid, Commit(Get(probed, best.pid), best))
                /\ total' = Fl(total + best.value)
                /\ trips_used' = trips_used + 1
                /\ step' = step + 1
                /\ chosen' = Append(chosen,
                        [product_id |-> best.pid, kind |-> best.kind,
                         sold |-> best.sold, value |-> best.value,
                         key |-> best.key, total |-> total, step |-> step,
                         remaining_full |-> Get(st, best.pid).remaining_full,
                         last_used |-> Get(st, best.pid).last_used,
                         state |-> st])
                /\ pc' = "construct"
    /\ sims' = sims \cup StepSimulations(st, K - step)
    /\ UNCHANGED <<products, target_eur, mant, returned, K, plan>>
    /\ UNCHANGED appvars

\* the loop is over: the lines, sorted, and the plan
Feasible ==
    /\ pc = "construct"
    /\ ~(step <= K)
    /\ Return(TripPlan(TRUE, target_eur, total, trips_used,
                       SortLines(BuildLines(st)), NoReason))
    /\ UNCHANGED <<products, target_eur, mant, returned, st, K, step, total,
                   trips_used, chosen, sims>>
    /\ UNCHANGED appvars

\* the construction loop as a whole, from a step on: the state, the revenue and
\* the trips at the end of the loop, or Raised
Raised == [raised |-> TRUE]

RECURSIVE ConstructLoop(_, _, _, _, _, _)
ConstructLoop(s, tot, trips, stp, k, target) ==
    IF stp > k THEN [st |-> s, total |-> tot, trips_used |-> trips]
    ELSE LET best == best_choice(s, tot, k - stp, target)
         IN  IF best = <<>> THEN Raised
             ELSE ConstructLoop(Put(s, best.pid, Commit(Get(s, best.pid), best)),
                                Fl(tot + best.value), trips + 1, stp + 1, k, target)

\* the call as a function of its arguments: the plan returned, or Raised
optimize_min_trips(prods, target) ==
    IF target <= 0
    THEN TripPlan(FALSE, target, 0, 0, <<>>, "objective.plan_info.no_plan")
    ELSE LET s0 == _init_state(prods)
         IN  IF s0 = <<>>
             THEN TripPlan(FALSE, target, 0, 0, <<>>, "objective.plan_info.no_products")
             ELSE LET k == _min_trips_needed(s0, target)
                  IN  IF k = None
                      THEN TripPlan(FALSE, target, _max_revenue_possible(s0, AllTrips),
                                    0, <<>>, "objective.plan_info.not_reached_quota")
                      ELSE LET r == ConstructLoop(s0, 0, 0, 1, k, target)
                           IN  IF r = Raised THEN Raised
                               ELSE TripPlan(TRUE, target, r.total, r.trips_used,
                                             SortLines(BuildLines(r.st)), NoReason)

\* a second call on products whose stock the first call's plan has left
CallAgainOnStockLeft ==
    /\ pc = "done"
    /\ returned = <<>>
    /\ returned' = <<plan>>
    /\ products' =
          [i \in 1..Len(products) |->
              LET sold == {l \in 1..Len(plan.lines) :
                              plan.lines[l].product_id = products[i].product_id}
              IN  IF sold = {} THEN products[i]
                  ELSE [products[i] EXCEPT
                          !.stock_l = @ - plan.lines[CHOOSE l \in sold : TRUE].sold_l]]
    /\ pc' = "start"
    /\ st' = <<>>
    /\ K' = 0
    /\ step' = 0
    /\ total' = 0
    /\ trips_used' = 0
    /\ chosen' = <<>>
    /\ sims' = {}
    /\ plan' = NotReturned
    /\ UNCHANGED <<target_eur, mant>>
    /\ UNCHANGED appvars

\* the caller calls again with the same arguments: the products are not
\* modified by the call, every local starts afresh
CallAgain ==
    /\ pc = "done"
    /\ returned = <<>>
    /\ returned' = <<plan>>
    /\ pc' = "start"
    /\ st' = <<>>
    /\ K' = 0
    /\ step' = 0
    /\ total' = 0
    /\ trips_used' = 0
    /\ chosen' = <<>>
    /\ sims' = {}
    /\ plan' = NotReturned
    /\ UNCHANGED <<products, target_eur, mant>>
    /\ UNCHANGED appvars

Next ==
    \/ CallAgain
    \/ NoTarget
    \/ NoProducts
    \/ NotReachedQuota
    \/ MinTrips
    \/ Construct
    \/ Feasible

Spec == Init /\ [][Next]_vars

SpecFloat == InitFloat /\ [][Next]_vars

SpecDrift == InitDrift /\ [][Next]_vars

---------------------------------------------------------------------------
(* What the properties are stated over: the products as given, and the     *)
(* selections of trips the rules allow, computed from the product records  *)
(* alone.                                                                  *)

Done == pc = "done"

ReturnedFeasible == Done /\ plan.feasible

\* the eligibility filter, as the data model states it
IsEligible(pr) ==
    pr.enabled /\ pr.cap_per_trip_l > 0 /\ pr.stock_l - pr.min_keep_l > 0

EligibleIndexes == {i \in 1..Len(products) : IsEligible(products[i])}

Sellable(pr) == pr.stock_l - pr.min_keep_l

FullTripsAvailable(pr) == Sellable(pr) \div pr.cap_per_trip_l

Remainder(pr) == Sellable(pr) - FullTripsAvailable(pr) * pr.cap_per_trip_l

TripsAvailable(pr) == FullTripsAvailable(pr) + (IF Remainder(pr) > 0 THEN 1 ELSE 0)

\* the quantity n trips of a product carry: full trips first, then the partial
SoldBy(pr, n) ==
    IF n <= FullTripsAvailable(pr) THEN n * pr.cap_per_trip_l
    ELSE FullTripsAvailable(pr) * pr.cap_per_trip_l + Remainder(pr)

RevenueBy(pr, n) == SoldBy(pr, n) * pr.price_per_1000

RECURSIVE SumOver(_, _)
SumOver(S, f) ==
    IF S = {} THEN 0
    ELSE LET x == CHOOSE y \in S : TRUE IN f[x] + SumOver(S \ {x}, f)

MostTrips ==
    IF EligibleIndexes = {} THEN 0
    ELSE CHOOSE n \in {TripsAvailable(products[i]) : i \in EligibleIndexes} :
            \A i \in EligibleIndexes : TripsAvailable(products[i]) <= n

\* a selection gives every eligible product a number of trips it can make
Selections ==
    {f \in [EligibleIndexes -> 0..MostTrips] :
        \A i \in EligibleIndexes : f[i] <= TripsAvailable(products[i])}

SelTrips(f) == SumOver(EligibleIndexes, f)

SelSold(f) == SumOver(EligibleIndexes, [i \in EligibleIndexes |-> SoldBy(products[i], f[i])])

SelRevenue(f) ==
    SumOver(EligibleIndexes, [i \in EligibleIndexes |-> RevenueBy(products[i], f[i])])

\* the revenue of selling every eligible product down to its keep threshold
MaxObtainable ==
    SumOver(EligibleIndexes,
            [i \in EligibleIndexes |-> Sellable(products[i]) * products[i].price_per_1000])

PlanSold == SumSeq([i \in 1..Len(plan.lines) |-> plan.lines[i].sold_l])

ProductOf(pid) == products[CHOOSE i \in 1..Len(products) : products[i].product_id = pid]

---------------------------------------------------------------------------
(* C1 *)

\* C1: trip-count minimality. A feasible plan of K trips is returned only when
\* no selection of fewer than K trips that respects the per-product rules has
\* revenue >= target_eur; equivalently the greedy maximum with K - 1 trips is
\* below target_eur.
C1_TripCountMinimal ==
    ReturnedFeasible =>
        /\ \A f \in Selections :
              SelTrips(f) < plan.total_trips => SelRevenue(f) < target_eur
        /\ _max_revenue_possible(_init_state(products), plan.total_trips - 1)
              < target_eur

\* a plan of three trips over two products, the two best trips falling short
C1_Witness ==
    /\ ReturnedFeasible
    /\ plan.total_trips = 3
    /\ Len(plan.lines) = 2
    /\ \E f \in Selections : SelTrips(f) = 2 /\ SelRevenue(f) = target_eur - 1

---------------------------------------------------------------------------
(* C2 *)

\* C2: every plan returned with feasible = true has total_revenue_eur >= target_eur.
C2_FeasibleReachesTarget ==
    ReturnedFeasible => plan.total_revenue_eur >= target_eur

\* a feasible plan that a less valuable candidate would have missed: some
\* selection of as many trips earns less than the target
C2_Witness ==
    /\ ReturnedFeasible
    /\ plan.total_revenue_eur = target_eur
    /\ plan.total_trips >= 2
    /\ \E f \in Selections : SelTrips(f) = plan.total_trips /\ SelRevenue(f) < target_eur

---------------------------------------------------------------------------
(* C3 *)

\* the selections that use as many trips as the plan and reach the target
RivalSelections ==
    {f \in Selections : SelTrips(f) = plan.total_trips /\ SelRevenue(f) >= target_eur}

\* C3: among all valid plans that use the minimum trip count K and reach
\* target_eur, the plan returned sells the least total quantity: no other valid
\* K-trip plan reaching the target sells strictly less.
C3_LeastQuantitySold ==
    ReturnedFeasible => \A f \in RivalSelections : SelSold(f) >= PlanSold

---------------------------------------------------------------------------
(* C4 *)

\* C4: revenue is the tie-break after remaining stock. Among all valid K-trip
\* plans that reach target_eur and sell the same total quantity as the plan
\* returned, none has strictly larger total revenue.
C4_RevenueBreaksTies ==
    ReturnedFeasible =>
        \A f \in RivalSelections :
            SelSold(f) = PlanSold => SelRevenue(f) <= plan.total_revenue_eur

---------------------------------------------------------------------------
(* C5 *)

QuotaReachable ==
    /\ target_eur > 0
    /\ EligibleIndexes # {}
    /\ MaxObtainable >= target_eur

QuotaUnreachable ==
    /\ target_eur > 0
    /\ EligibleIndexes # {}
    /\ MaxObtainable < target_eur

---------------------------------------------------------------------------
(* C6 *)

---------------------------------------------------------------------------
(* C7 *)

Infeasible_Reasons ==
    {"objective.plan_info.no_plan", "objective.plan_info.no_products",
     "objective.plan_info.not_reached_quota"}

\* C7 as claimed: total_revenue_eur is 0 in every infeasible plan whose reason
\* is anything other than "no products", that is for the no-target reason and
\* for the quota-not-reachable reason.
C7_ZeroUnlessNoProducts ==
    (Done /\ ~plan.feasible /\ plan.reason # "objective.plan_info.no_products") =>
        plan.total_revenue_eur = 0

\* C7 as amended: total_revenue_eur is 0 in every infeasible plan whose reason
\* is anything other than quota-not-reachable, that is for the no-target reason
\* and for the no-products reason; with the quota-not-reachable reason it is
\* the maximum obtainable revenue.
C7_ZeroUnlessNotReached ==
    (Done /\ ~plan.feasible) =>
        /\ plan.reason \in Infeasible_Reasons
        /\ plan.reason # "objective.plan_info.not_reached_quota" =>
              plan.total_revenue_eur = 0
        /\ plan.reason = "objective.plan_info.not_reached_quota" =>
              plan.total_revenue_eur = MaxObtainable

\* no target, over products that could have earned something
C7_Witness ==
    /\ Done
    /\ plan.reason = "objective.plan_info.no_plan"
    /\ plan.total_revenue_eur = 0
    /\ MaxObtainable > 0

---------------------------------------------------------------------------
(* C8 *)

\* C8: for valid input optimize_min_trips never raises: at each of the K
\* construction steps at least one candidate trip exists and survives the
\* feasibility guard, so the chosen candidate is never undefined.
C8_NeverRaises ==
    /\ pc # "raised"
    /\ (pc = "construct" /\ step <= K) =>
          best_choice(st, total, K - step, target_eur) # <<>>

---------------------------------------------------------------------------
(* C9 *)

\* C9: stock conservation. For every line of a feasible plan, sold_l is at most
\* stock_l - min_keep_l of that product, and sold_l = full_trips * cap_per_trip_l
\* + (remainder if last_partial_used else 0), where remainder = sellable -
\* floor(sellable / cap) * cap.
C9_StockConservation ==
    ReturnedFeasible =>
        \A i \in 1..Len(plan.lines) :
            LET line == plan.lines[i]
                pr == ProductOf(line.product_id)
            IN  /\ line.sold_l <= pr.stock_l - pr.min_keep_l
                /\ line.sold_l =
                      Fl(Fl(line.full_trips * pr.cap_per_trip_l)
                         + (IF line.last_partial_used
                            THEN Fl(Sellable(pr)
                                    - Fl(FullTripsAvailable(pr) * pr.cap_per_trip_l))
                            ELSE 0))

\* a line with full trips and the partial trip, and a line of a product sold
\* down to the minimum it keeps
C9_Witness ==
    /\ ReturnedFeasible
    /\ \E i \in 1..Len(plan.lines) :
          /\ plan.lines[i].last_partial_used
          /\ plan.lines[i].full_trips > 0
    /\ \E i \in 1..Len(plan.lines) :
          /\ ProductOf(plan.lines[i].product_id).min_keep_l > 0
          /\ plan.lines[i].sold_l = Sellable(ProductOf(plan.lines[i].product_id))

---------------------------------------------------------------------------
(* C10 *)

\* a partial trip is taken only with no full trip left, and only once
PartialLast(picks) ==
    /\ \A j \in 1..Len(picks) :
          picks[j].kind = "last" =>
              picks[j].remaining_full = 0 /\ ~picks[j].last_used
    /\ \A j, k \in 1..Len(picks) :
          (j < k /\ picks[j].product_id = picks[k].product_id) =>
              picks[j].kind = "full"

\* C10: ordering invariant. In every step of plan construction and in every
\* step of the greedy simulations a product's partial (last) trip is taken only
\* when that product's remaining full-trip count is zero at the time of the
\* choice, and it is taken at most once.
C10_PartialAfterFull ==
    /\ PartialLast(chosen)
    /\ \A picks \in sims : PartialLast(picks)

\* the construction has taken a product's full trip and then its partial trip,
\* and so has a simulation
C10_Witness ==
    /\ \E j, k \in 1..Len(chosen) :
          /\ j < k
          /\ chosen[j].product_id = chosen[k].product_id
          /\ chosen[k].kind = "last"
    /\ \E picks \in sims :
          \E j, k \in 1..Len(picks) :
              /\ j < k
              /\ picks[j].product_id = picks[k].product_id
              /\ picks[k].kind = "last"

---------------------------------------------------------------------------
(* C11 *)

\* the state after the trip of a committed step, as the guard's simulation
\* takes it
StateAfter(pick) ==
    st_temp(pick.state, Get(pick.state, pick.product_id), pick.kind)

\* C11: at every committed step s of K, the revenue accumulated before the
\* step, plus the value of the chosen trip, plus _max_revenue_possible of the
\* state after the trip with K - s trips, is at least target_eur
C11_GuardHoldsAtEveryStep ==
    \A j \in 1..Len(chosen) :
        chosen[j].total + chosen[j].value
            + _max_revenue_possible(StateAfter(chosen[j]), K - chosen[j].step)
        >= target_eur

\* a plan of three trips or more is returned whose first step had a candidate
\* the guard rejected, and whose committed steps leave trips to come
C11_Witness ==
    /\ ReturnedFeasible
    /\ Len(chosen) >= 3
    /\ \E i \in 1..Len(chosen[1].state) :
          LET info == chosen[1].state[i]
              trip == StepTrip(info)
          IN  /\ trip # <<>>
              /\ trip.value + _max_revenue_possible(
                        st_temp(chosen[1].state, info, trip.kind), K - 1)
                    < target_eur
    /\ \E j \in 1..Len(chosen) :
          _max_revenue_possible(StateAfter(chosen[j]), K - chosen[j].step) > 0

---------------------------------------------------------------------------
(* C12 *)

NoTargetPlan ==
    TripPlan(FALSE, target_eur, 0, 0, <<>>, "objective.plan_info.no_plan")

\* C12: with target_eur <= 0 the plan returned is infeasible with the
\* no-target reason, 0 trips, 0 revenue and no lines, whatever the products,
\* eligible or not
C12_NoTargetReport ==
    (Done /\ target_eur <= 0) => plan = NoTargetPlan

\* a no-target call on a non-empty list with no eligible product
C12_Witness ==
    /\ Done
    /\ target_eur <= 0
    /\ Len(products) > 0
    /\ EligibleIndexes = {}

---------------------------------------------------------------------------
(* C13 *)

NoProductsPlan ==
    TripPlan(FALSE, target_eur, 0, 0, <<>>, "objective.plan_info.no_products")

\* C13: with target_eur > 0 and every product excluded by the eligibility
\* filter (the empty list included) the plan returned is infeasible with the
\* no-products reason, 0 trips, 0 revenue and no lines
C13_NoProductsReport ==
    (Done /\ target_eur > 0 /\ EligibleIndexes = {}) => plan = NoProductsPlan

\* a call with a positive target on a disabled product and a product whose
\* stock is what it keeps
C13_Witness ==
    /\ Done
    /\ target_eur > 0
    /\ EligibleIndexes = {}
    /\ \E i \in 1..Len(products) :
          ~products[i].enabled /\ products[i].cap_per_trip_l > 0
              /\ products[i].stock_l > products[i].min_keep_l
    /\ \E i \in 1..Len(products) :
          /\ products[i].enabled
          /\ products[i].cap_per_trip_l > 0
          /\ products[i].stock_l = products[i].min_keep_l
          /\ products[i].stock_l > 0

---------------------------------------------------------------------------
(* C14 *)

\* the orders a list of products can be passed in
Orders(prods) ==
    {[i \in 1..Len(prods) |-> prods[f[i]]] : f \in Permutations(1..Len(prods))}

\* C14: with unique identifiers, the call on any permutation of the product
\* list returns the plan the call returned: same feasibility, totals and
\* reason, the same lines in the same order
C14_OrderIndependence ==
    Done => \A prods \in Orders(products) :
                optimize_min_trips(prods, target_eur) = plan

\* a feasible plan over two eligible products that differ in the identifier
\* only, one taking more trips than the other
C14_Witness ==
    /\ ReturnedFeasible
    /\ Len(products) = 2
    /\ EligibleIndexes = {1, 2}
    /\ products[2] = [products[1] EXCEPT !.product_id = products[2].product_id]
    /\ Len(plan.lines) = 2
    /\ LineTrips(plan.lines[1]) > LineTrips(plan.lines[2])

---------------------------------------------------------------------------
(* C15 *)

---------------------------------------------------------------------------
(* C16 *)

\* the targets above the target of the call
HigherTargets == {t \in (-1)..MaxTarget : t >= target_eur}

\* C16: for the same products and two targets t1 <= t2 whose plans are both
\* feasible, total_trips of the plan for t1 is at most total_trips of the
\* plan for t2
C16_TripsMonotoneInTarget ==
    ReturnedFeasible =>
        \A t2 \in HigherTargets :
            LET plan2 == optimize_min_trips(products, t2)
            IN  (plan2 # Raised /\ plan2.feasible) =>
                    plan.total_trips <= plan2.total_trips

\* a feasible plan, with a higher target whose plan is feasible with more
\* trips and another whose plan has the same trips
C16_Witness ==
    /\ ReturnedFeasible
    /\ \E t2 \in HigherTargets :
          /\ optimize_min_trips(products, t2).feasible
          /\ optimize_min_trips(products, t2).total_trips > plan.total_trips
    /\ \E t2 \in HigherTargets \ {target_eur} :
          /\ optimize_min_trips(products, t2).feasible
          /\ optimize_min_trips(products, t2).total_trips = plan.total_trips

---------------------------------------------------------------------------
(* C17 *)

\* the keys of the candidates of a committed step that passed the guard
Survivors(pick) ==
    {<<remaining_stock_after(pick.state[i], StepTrip(pick.state[i]).sold),
       StepTrip(pick.state[i]).value, pick.state[i].product_id>> :
        i \in {n \in 1..Len(pick.state) :
                /\ StepTrip(pick.state[n]) # <<>>
                /\ ~Infeasible(pick.total, StepTrip(pick.state[n]).value,
                               max_future(pick.state, pick.state[n],
                                          StepTrip(pick.state[n]).kind,
                                          K - pick.step),
                               target_eur)}}

\* the survivors equal to the chosen candidate in remaining stock and value
TiedWithChosen(pick) ==
    {c \in Survivors(pick) : c[1] = pick.key[1] /\ c[2] = pick.key[2]}

\* C17 as stated: in every committed step, of the surviving candidates equal
\* in remaining_stock_after and value the one chosen has the product_id that
\* comes first in ascending order
C17_LowestIdChosen ==
    \A j \in 1..Len(chosen) :
        \A c \in TiedWithChosen(chosen[j]) : chosen[j].product_id <= c[3]

\* C17 as the code has it: in every committed step, of the surviving
\* candidates equal in remaining_stock_after and value the one chosen has the
\* greatest product_id (key > best_key keeps the maximum of the key tuples)
C17_GreatestIdChosen ==
    \A j \in 1..Len(chosen) :
        \A c \in TiedWithChosen(chosen[j]) : chosen[j].product_id >= c[3]

\* a plan returned after a step in which two survivors were equal in remaining
\* stock and value
C17_Witness ==
    /\ ReturnedFeasible
    /\ \E j \in 1..Len(chosen) : Cardinality(TiedWithChosen(chosen[j])) = 2

---------------------------------------------------------------------------
(* C18 *)

\* the single trip a product has available first: a full trip, or the partial
\* trip when it has no full trip
SingleSold(pr) ==
    IF FullTripsAvailable(pr) > 0 THEN pr.cap_per_trip_l ELSE Remainder(pr)

SingleValue(pr) == SingleSold(pr) * pr.price_per_1000

SingleRemaining(pr) == pr.stock_l - SingleSold(pr)

\* the products whose single trip alone satisfies the target
Singles ==
    {i \in EligibleIndexes : SingleValue(products[i]) >= target_eur}

\* the case: a plan of one trip returned, two products or more able to make it
OneTripChoice ==
    ReturnedFeasible /\ plan.total_trips = 1 /\ Cardinality(Singles) > 1

PlanProduct == ProductOf(plan.lines[1].product_id)

\* C18 as stated: with a minimum trip count of 1 and more than one product
\* whose single trip satisfies the target, the trip of the plan has the highest
\* value, and among trips of equal value leaves the most remaining stock
C18_HighestValueFirst ==
    OneTripChoice =>
        \A i \in Singles :
            \/ SingleValue(PlanProduct) > SingleValue(products[i])
            \/ /\ SingleValue(PlanProduct) = SingleValue(products[i])
               /\ SingleRemaining(PlanProduct) >= SingleRemaining(products[i])

\* C18 as the code has it: with a minimum trip count of 1 and more than one
\* product whose single trip satisfies the target, the trip of the plan leaves
\* the most remaining stock of its product, and among trips leaving equal
\* remaining stock has the highest value
C18_MostRemainingStockFirst ==
    OneTripChoice =>
        \A i \in Singles :
            \/ SingleRemaining(PlanProduct) > SingleRemaining(products[i])
            \/ /\ SingleRemaining(PlanProduct) = SingleRemaining(products[i])
               /\ SingleValue(PlanProduct) >= SingleValue(products[i])

\* a one-trip plan chosen between a trip of higher value and a trip leaving
\* more stock
C18_Witness ==
    /\ OneTripChoice
    /\ \E i, j \in Singles :
          /\ SingleValue(products[i]) > SingleValue(products[j])
          /\ SingleRemaining(products[i]) < SingleRemaining(products[j])

---------------------------------------------------------------------------
(* C19 *)

\* the product list without the products at the indexes of S
Without(prods, S) ==
    LET keep(i) == i \notin S
        RECURSIVE from(_)
        from(i) == IF i > Len(prods) THEN <<>>
                   ELSE IF keep(i) THEN <<prods[i]>> \o from(i + 1)
                   ELSE from(i + 1)
    IN  from(1)

IneligibleIndexes == (1..Len(products)) \ EligibleIndexes

\* C19: no line of a plan is of a product that is disabled, has
\* cap_per_trip_l <= 0 or has stock_l <= min_keep_l, and the call on the list
\* with any of these products removed returns the plan the call returned (so
\* adding them to that list leaves the plan unchanged)
C19_IneligibleExcluded ==
    Done =>
        /\ \A l \in 1..Len(plan.lines) :
              IsEligible(ProductOf(plan.lines[l].product_id))
        /\ \A S \in SUBSET IneligibleIndexes :
              optimize_min_trips(Without(products, S), target_eur) = plan

\* a feasible plan returned on a list that holds a disabled product with
\* stock to sell
C19_Witness ==
    /\ ReturnedFeasible
    /\ \E i \in IneligibleIndexes :
          /\ ~products[i].enabled
          /\ products[i].cap_per_trip_l > 0
          /\ products[i].stock_l > products[i].min_keep_l
          /\ products[i].price_per_1000 > 0

---------------------------------------------------------------------------
(* C20 *)

\* sum(...) over the lines in their order, in the arithmetic of the program
RECURSIVE LinesRevenue(_)
LinesRevenue(lines) ==
    IF lines = <<>> THEN 0
    ELSE Fl(LinesRevenue(SubSeq(lines, 1, Len(lines) - 1))
            + lines[Len(lines)].revenue_eur)

RECURSIVE LinesTrips(_)
LinesTrips(lines) ==
    IF lines = <<>> THEN 0 ELSE LineTrips(Head(lines)) + LinesTrips(Tail(lines))

ChosenIds == {chosen[j].product_id : j \in 1..Len(chosen)}

\* the lines against the steps, the trips against the lines, and the revenue
\* of each line
LinesAndTrips ==
    /\ {plan.lines[l].product_id : l \in 1..Len(plan.lines)} = ChosenIds
    /\ Len(plan.lines) = Cardinality(ChosenIds)
    /\ \A l \in 1..Len(plan.lines) : LineTrips(plan.lines[l]) > 0
    /\ plan.total_trips = K
    /\ plan.total_trips = LinesTrips(plan.lines)
    /\ \A l \in 1..Len(plan.lines) :
          plan.lines[l].revenue_eur =
              Fl(plan.lines[l].sold_l
                 * ProductOf(plan.lines[l].product_id).price_per_1000)

\* C20: in a feasible plan there is exactly one line per product chosen in a
\* step (no product_id twice, no line of zero trips), total_trips is the
\* minimum trip count K and the sum over the lines of full_trips plus 1 for
\* the partial trip, and total_revenue_eur is the sum of the lines'
\* revenue_eur, each of them sold_l * price_per_1000 / 1000
C20_TotalsAgreeWithLines ==
    ReturnedFeasible =>
        /\ LinesAndTrips
        /\ plan.total_revenue_eur = LinesRevenue(plan.lines)

\* what is left of C20 in the arithmetic of the program: everything but the
\* revenue total, which is the sum of the values of the trips in step order
C20_TotalsWithoutRevenue ==
    ReturnedFeasible => LinesAndTrips

---------------------------------------------------------------------------
(* C21 *)

\* line a comes before line b: more trips, or as many and more sold, or as
\* many of both and the lesser identifier
Before(a, b) ==
    LET trips(x) == x.full_trips + (IF x.last_partial_used THEN 1 ELSE 0)
    IN  \/ trips(a) > trips(b)
        \/ trips(a) = trips(b) /\ a.sold_l > b.sold_l
        \/ trips(a) = trips(b) /\ a.sold_l = b.sold_l
              /\ a.product_id < b.product_id

\* C21: the lines of a feasible plan are in the order of descending trips
\* used (full_trips, plus 1 if the partial trip was used), then descending
\* sold_l, then ascending product_id
C21_LinesOrdered ==
    ReturnedFeasible =>
        \A i, j \in 1..Len(plan.lines) :
            i < j => Before(plan.lines[i], plan.lines[j])

\* a plan of two lines with as many trips each, the line of the second
\* product first because it sold more
C21_Witness ==
    /\ ReturnedFeasible
    /\ Len(plan.lines) = 2
    /\ plan.lines[1].product_id > plan.lines[2].product_id
    /\ LineTrips(plan.lines[1]) = LineTrips(plan.lines[2])
    /\ plan.lines[1].sold_l > plan.lines[2].sold_l

---------------------------------------------------------------------------
(* C24 *)

\* a > b on tuples of three, lexicographically
LexGreater(a, b) ==
    \/ a[1] > b[1]
    \/ a[1] = b[1] /\ a[2] > b[2]
    \/ a[1] = b[1] /\ a[2] = b[2] /\ a[3] > b[3]

\* the quantity the steps before step j sold of the product of step j
RECURSIVE SoldBefore(_, _)
SoldBefore(j, i) ==
    IF i >= j THEN 0
    ELSE (IF chosen[i].product_id = chosen[j].product_id THEN chosen[i].sold ELSE 0)
         + SoldBefore(j, i + 1)

\* the tuple of the candidate committed at step j, from the product record
CommittedTuple(j) ==
    <<ProductOf(chosen[j].product_id).stock_l - SoldBefore(j, 1) - chosen[j].sold,
      chosen[j].value, chosen[j].product_id>>

\* C24: at every construction step the committed candidate passes the guard
\* and has the greatest tuple (remaining_stock_after, value, product_id),
\* lexicographically, of the candidates that pass it, remaining_stock_after
\* being the product's stock_l minus the quantity already sold from it minus
\* the quantity of the trip
C24_StepSelection ==
    \A j \in 1..Len(chosen) :
        /\ chosen[j].key = CommittedTuple(j)
        /\ CommittedTuple(j) \in Survivors(chosen[j])
        /\ \A c \in Survivors(chosen[j]) :
              c = CommittedTuple(j) \/ LexGreater(CommittedTuple(j), c)

\* a plan returned after a step, not the first of its product, at which the
\* committed candidate left more stock than another survivor of higher value
C24_Witness ==
    /\ ReturnedFeasible
    /\ \E j \in 1..Len(chosen) :
          /\ SoldBefore(j, 1) > 0
          /\ \E c \in Survivors(chosen[j]) :
                c[1] < CommittedTuple(j)[1] /\ c[2] > CommittedTuple(j)[2]

---------------------------------------------------------------------------
(* C25 *)

\* the trips a product of a state has left: its full trips, and the partial
\* trip if there is a remainder and it was not used
PartialLeft(info) == info.rem_l > 0 /\ ~info.last_used

TripsLeftOf(info) == info.remaining_full + (IF PartialLeft(info) THEN 1 ELSE 0)

\* the revenue of n trips of a product of a state, full trips first
RevenueOfTrips(info, n) ==
    IF n <= info.remaining_full THEN n * info.cap * info.p_per_l
    ELSE info.remaining_full * info.cap * info.p_per_l + info.rem_l * info.p_per_l

\* the selections of a state: a number of trips for every product
StateSelections(s) ==
    {sel \in [1..Len(s) -> 0..(MaxStock + 1)] :
        \A i \in 1..Len(s) : sel[i] <= TripsLeftOf(s[i])}

StateSelTrips(s, sel) == SumOver(1..Len(s), sel)

StateSelRevenue(s, sel) ==
    SumOver(1..Len(s), [i \in 1..Len(s) |-> RevenueOfTrips(s[i], sel[i])])

\* the maximum over the selections of at most n trips
BruteForceMax(s, n) ==
    LET revenues == {StateSelRevenue(s, sel) :
                        sel \in {x \in StateSelections(s) : StateSelTrips(s, x) <= n}}
    IN  IF revenues = {} THEN 0
        ELSE CHOOSE r \in revenues : \A q \in revenues : q <= r

\* the numbers of trips the function is asked about
TripCounts == ((-1)..(2 * MaxStock + 1)) \cup {AllTrips}

\* C25: for the state of the plan at any point of the construction and every
\* n, _max_revenue_possible(st, n) is the maximum revenue over the selections
\* of at most n trips that take a product's remaining full trips first and
\* its unused partial trip at most once after them, and it is 0 for n <= 0
C25_MaxRevenueIsMaximum ==
    \A n \in TripCounts :
        /\ _max_revenue_possible(st, n) = BruteForceMax(st, n)
        /\ n <= 0 => _max_revenue_possible(st, n) = 0

\* a state in mid-construction, a trip committed, two products with trips
\* left of different values, a partial trip among them, and a number of
\* trips that does not take them all
C25_Witness ==
    /\ pc = "construct"
    /\ step >= 2
    /\ Len(st) = 2
    /\ \E i \in 1..Len(st) : PartialLeft(st[i]) /\ st[i].remaining_full > 0
    /\ \E i \in 1..Len(st) : st[i].chosen_full > 0
    /\ \E n \in TripCounts :
          /\ 0 < BruteForceMax(st, n)
          /\ BruteForceMax(st, n) < BruteForceMax(st, n + 1)
          /\ BruteForceMax(st, n + 1) < BruteForceMax(st, AllTrips)

---------------------------------------------------------------------------
(* C26 *)

\* the state with the trip of a committed step applied to its product
WithTrip(s, pick) ==
    [i \in 1..Len(s) |->
        IF s[i].product_id # pick.product_id THEN s[i]
        ELSE IF pick.kind = "full"
             THEN [s[i] EXCEPT !.sold_l = @ + pick.sold,
                               !.chosen_full = @ + 1,
                               !.remaining_full = @ - 1]
             ELSE [s[i] EXCEPT !.sold_l = @ + pick.sold,
                               !.chosen_last = TRUE,
                               !.last_used = TRUE]]

\* the state as _init_state builds it from the product records
FreshState ==
    [i \in 1..Cardinality(EligibleIndexes) |->
        LET pr == products[CHOOSE n \in EligibleIndexes :
                        Cardinality({m \in EligibleIndexes : m < n}) = i - 1]
        IN  [product_id |-> pr.product_id,
             stock_l |-> pr.stock_l,
             min_keep_l |-> pr.min_keep_l,
             cap |-> pr.cap_per_trip_l,
             p_per_l |-> pr.price_per_1000,
             sellable_l |-> Sellable(pr),
             remaining_full |-> FullTripsAvailable(pr),
             rem_l |-> Remainder(pr),
             last_used |-> FALSE,
             sold_l |-> 0,
             chosen_full |-> 0,
             chosen_last |-> FALSE]]

\* C26: the calls of _min_trips_needed and _max_revenue_possible and the
\* trial of a candidate on st_temp leave every field of st as it was: after
\* the simulations at the start st is the state as _init_state built it, a
\* step of the construction changes st by the committed trip only, on its
\* product only, nothing else changes st within a call, and the product
\* records of the caller never change
C26_ProbingLeavesStateAlone ==
    [][/\ products' = products
       /\ IF pc' = "start" THEN st' = <<>>
          ELSE IF pc = "start" THEN st' = st \/ st' = FreshState
          ELSE IF pc = "construct" /\ Len(chosen') > Len(chosen)
               THEN st' = WithTrip(st, chosen'[Len(chosen')])
               ELSE st' = st]_vars

\* a step committed after a loop that tried two candidates and simulated
\* the trips left after each
C26_Witness ==
    /\ pc = "construct"
    /\ chosen # <<>>
    /\ K - chosen[Len(chosen)].step >= 2
    /\ Cardinality({i \in 1..Len(chosen[Len(chosen)].state) :
                        StepTrip(chosen[Len(chosen)].state[i]) # <<>>}) = 2
    /\ st = WithTrip(chosen[Len(chosen)].state, chosen[Len(chosen)])

---------------------------------------------------------------------------
(* C27 *)

\* C27: in every line of a feasible plan, last_partial_used implies that the
\* product was sold down to what it keeps, full_trips = floor(sellable /
\* cap_per_trip_l) and sold_l = stock_l - min_keep_l; and in every line
\* full_trips <= floor(sellable / cap_per_trip_l)
C27_PartialMeansSoldOut ==
    ReturnedFeasible =>
        \A l \in 1..Len(plan.lines) :
            LET line == plan.lines[l]
                pr == ProductOf(line.product_id)
            IN  /\ line.full_trips <= FullTripsAvailable(pr)
                /\ line.last_partial_used =>
                      /\ line.full_trips = FullTripsAvailable(pr)
                      /\ line.sold_l = pr.stock_l - pr.min_keep_l

\* a plan with a line that used the partial trip after full trips, of a
\* product that keeps some stock, and a line that left full trips unused
C27_Witness ==
    /\ ReturnedFeasible
    /\ \E l \in 1..Len(plan.lines) :
          /\ plan.lines[l].last_partial_used
          /\ plan.lines[l].full_trips > 0
    /\ \E l \in 1..Len(plan.lines) :
          /\ ~plan.lines[l].last_partial_used
          /\ plan.lines[l].full_trips
                < FullTripsAvailable(ProductOf(plan.lines[l].product_id))

---------------------------------------------------------------------------
(* C23 *)

\* C23: for the plan a call returns, feasible or not, whatever its lines and
\* with a reason or None, TripPlan.from_dict(p.to_dict()) is p field for
\* field, and TripPlanLine.from_dict(l.to_dict()) is l for each of its lines
C23_SerializationRoundTrip ==
    Done =>
        /\ TripPlan_from_dict(TripPlan_to_dict(plan)) = plan
        /\ \A l \in 1..Len(plan.lines) :
              TripPlanLine_from_dict(TripPlanLine_to_dict(plan.lines[l]))
                  = plan.lines[l]

\* a feasible plan of two lines, one with the partial trip, and no reason
C23_Witness ==
    /\ ReturnedFeasible
    /\ plan.reason = NoReason
    /\ Len(plan.lines) = 2
    /\ \E l \in 1..Len(plan.lines) : plan.lines[l].last_partial_used
    /\ \E l \in 1..Len(plan.lines) : ~plan.lines[l].last_partial_used


---------------------------------------------------------------------------
(* The application: FSStockApp, its farms and the handlers of its screens. *)
(* Dictionaries of products are modelled by their sets of keys, the dict   *)
(* of farms by the sequence of its items in insertion order. The farm's    *)
(* name and the widgets are left out, and so is the file save_state        *)
(* writes: of _save_state the model keeps _persist_current_farm.           *)

\* the identifiers of load_catalog(), and those 'u_' + uuid4().hex[:8] makes
CatalogIds == {1}

CustomIds == ProductIds \ CatalogIds

\* product_id.startswith("u_")
startswith_u(pid) == pid \in CustomIds

\* farms held at once, and the identifiers new_farm_id() draws from
MaxFarms == 2

FarmIds == 1..MaxFarms

\* what the user types into the dialogs
Names == {"", "Miel"}

AddPrices == {1}

EditInputs ==
    {[qty |-> MaxCap, price |-> 1, cap |-> MaxCap, min_keep |-> 0 - 1,
      enabled |-> TRUE],
     [qty |-> DriftStock, price |-> DriftMaxPrice, cap |-> DriftCap, min_keep |-> 0,
      enabled |-> TRUE]}

TargetInputs == {0, DriftMaxTarget}

StockEntry(pid, qty, price, cap, keep, enabled) ==
    [product_id |-> pid, qty_l |-> qty, max_price_per_1000 |-> price,
     cap_per_trip_l |-> cap, min_keep_l |-> keep,
     enabled_for_optimization |-> enabled]

FarmData(s, p, ups) == [stock |-> s, last_plan |-> p, user_products |-> ups]

\* the dict of farms
FarmKeys(f) == {f[i].id : i \in 1..Len(f)}

FarmOf(f, fid) == f[CHOOSE i \in 1..Len(f) : f[i].id = fid].farm

\* f[fid] = data: an old key keeps its place, a new one goes last
FarmSet(f, fid, data) ==
    IF fid \in FarmKeys(f)
    THEN [i \in 1..Len(f) |-> IF f[i].id = fid THEN [id |-> fid, farm |-> data]
                                               ELSE f[i]]
    ELSE Append(f, [id |-> fid, farm |-> data])

\* f.pop(fid, None)
FarmPop(f, fid) == SelectSeq(f, LAMBDA x : x.id # fid)

\* the index of the first entry of a product in a stock list, 0 for None
find_stock(s, pid) ==
    IF \E i \in 1..Len(s) : s[i].product_id = pid
    THEN CHOOSE i \in 1..Len(s) :
            /\ s[i].product_id = pid
            /\ \A j \in 1..(i - 1) : s[j].product_id # pid
    ELSE 0

\* [e for e in s if e.product_id != pid]
StockWithout(s, pid) == SelectSeq(s, LAMBDA e : e.product_id # pid)

\* a write to the dict app.catalog names: it is app.base_catalog too when both
\* names are bound to one dict
CatalogWrite(a, keys) ==
    [a EXCEPT !.catalog = keys,
              !.base_catalog = IF a.catalog_is_base_catalog THEN keys ELSE @]

_load_current_farm(a) ==
    LET f == FarmOf(a.farms, a.current_farm_id)
    IN  [a EXCEPT !.stock = f.stock,
                  !.last_plan = f.last_plan,
                  !.user_catalog = f.user_products,
                  !.catalog = a.base_catalog \cup f.user_products,
                  !.catalog_is_base_catalog = FALSE]

_persist_current_farm(a) ==
    [a EXCEPT !.farms = FarmSet(a.farms, a.current_farm_id,
                                FarmData(a.stock, a.last_plan, a.user_catalog))]

_save_state(a) == _persist_current_farm(a)

_invalidate_plan_and_save(a) == _save_state([a EXCEPT !.last_plan = PyNone])

\* load_state with no file saved, then build
load_state(fid) ==
    [farms |-> <<[id |-> fid, farm |-> FarmData(<<>>, PyNone, {})]>>,
     current_farm_id |-> fid]

build(fid) ==
    _save_state(_load_current_farm(
        [farms |-> load_state(fid).farms,
         current_farm_id |-> load_state(fid).current_farm_id,
         base_catalog |-> CatalogIds,
         catalog |-> CatalogIds,
         catalog_is_base_catalog |-> FALSE,
         user_catalog |-> {},
         stock |-> <<>>,
         last_plan |-> PyNone]))

InitApp ==
    /\ mant \in {Binary64Bits, FloatBits}
    /\ \E fid \in FarmIds : app = build(fid)
    /\ raised = FALSE
    /\ products = <<>>
    /\ target_eur = 0
    /\ returned = <<>>
    /\ pc = "start"
    /\ st = <<>>
    /\ K = 0
    /\ step = 0
    /\ total = 0
    /\ trips_used = 0
    /\ chosen = <<>>
    /\ sims = {}
    /\ plan = NotReturned

\* AddProductScreen: an item of the list is released for a product not in stock
\* (select_catalog_product opens the edit dialog for one that is), then "Add"
confirm_add_from_catalog ==
    /\ ~raised
    /\ \E pid \in CatalogIds, price \in AddPrices :
        /\ find_stock(app.stock, pid) = 0
        /\ app' = _invalidate_plan_and_save(
                    [app EXCEPT !.stock =
                        Append(@, StockEntry(pid, 0, Fl(price), 0, 0, TRUE))])
    /\ UNCHANGED <<raised, mant, optvars>>

\* the identifiers no object of the application holds
FreshCustomIds(a) ==
    {pid \in CustomIds :
        /\ pid \notin a.base_catalog \cup a.catalog \cup a.user_catalog
        /\ find_stock(a.stock, pid) = 0
        /\ \A i \in 1..Len(a.farms) :
            /\ pid \notin a.farms[i].farm.user_products
            /\ find_stock(a.farms[i].farm.stock, pid) = 0}

\* RootLayout.create_custom_product
create_custom_product ==
    /\ ~raised
    /\ \E name \in Names, price \in AddPrices, pid \in FreshCustomIds(app) :
        IF name = ""
        THEN app' = app
        ELSE app' = _invalidate_plan_and_save(
                [app EXCEPT
                    !.user_catalog = @ \cup {pid},
                    !.catalog_is_base_catalog = TRUE,
                    !.catalog = app.base_catalog \cup app.user_catalog \cup {pid},
                    !.base_catalog = @ \cup app.user_catalog \cup {pid},
                    !.stock = Append(@, StockEntry(pid, 0, Fl(price), 0, 0, TRUE))])
    /\ UNCHANGED <<raised, mant, optvars>>

\* max(float(text), 0.0)
NonNegative(x) == IF Fl(x) > 0 THEN Fl(x) ELSE 0

\* StockScreen._confirm_edit, on the entry the dialog was opened for
_confirm_edit ==
    /\ ~raised
    /\ \E i \in 1..Len(app.stock), e \in EditInputs :
        app' = _invalidate_plan_and_save(
                [app EXCEPT !.stock[i] =
                    StockEntry(@.product_id, NonNegative(e.qty), NonNegative(e.price),
                               NonNegative(e.cap), NonNegative(e.min_keep),
                               e.enabled)])
    /\ UNCHANGED <<raised, mant, optvars>>

\* StockScreen._delete_current, on the entry the dialog was opened for
_delete_current ==
    /\ ~raised
    /\ \E i \in 1..Len(app.stock) :
        LET pid == app.stock[i].product_id
            a1 == [app EXCEPT !.stock = StockWithout(@, pid)]
            a2 == IF startswith_u(pid)
                  THEN CatalogWrite([a1 EXCEPT !.user_catalog = @ \ {pid}],
                                    a1.catalog \ {pid})
                  ELSE a1
        IN  app' = _invalidate_plan_and_save(a2)
    /\ UNCHANGED <<raised, mant, optvars>>

\* SettingsScreen._do_reset_farm
_do_reset_farm ==
    /\ ~raised
    /\ app' = _save_state([app EXCEPT !.stock = <<>>, !.last_plan = PyNone])
    /\ UNCHANGED <<raised, mant, optvars>>

\* the list of OptProduct made of the stock
opt_products(s) ==
    [i \in 1..Len(s) |->
        OptProduct(s[i].product_id, s[i].qty_l, s[i].min_keep_l, s[i].cap_per_trip_l,
                   s[i].max_price_per_1000, s[i].enabled_for_optimization)]

\* ObjectiveScreen.calculate_objective_plan; a call of optimize_min_trips that
\* raises leaves the application as it was
calculate_objective_plan ==
    /\ ~raised
    /\ \E t \in TargetInputs : \E target \in {Fl(t)} :
        IF target <= 0
        THEN /\ app' = _save_state([app EXCEPT !.last_plan = PyNone])
             /\ raised' = FALSE
        ELSE \E p \in {optimize_min_trips(opt_products(app.stock), target)} :
                IF p = Raised
                THEN /\ app' = app
                     /\ raised' = TRUE
                ELSE IF p.feasible
                THEN /\ app' = _save_state([app EXCEPT !.last_plan = p])
                     /\ raised' = FALSE
                ELSE /\ app' = _save_state([app EXCEPT !.last_plan = PyNone])
                     /\ raised' = FALSE
    /\ UNCHANGED <<mant, optvars>>

\* StockScreen.delete_entry: the stock list without the entry; the screen has
\* no user_catalog, so for a custom product the attribute lookup raises
delete_entry(s, pid) ==
    [stock |-> StockWithout(s, pid), raised |-> startswith_u(pid)]

\* entry.qty_l = new_qty on the entry object of a product, in a list that holds it
WithQty(s, pid, new_qty) ==
    [i \in 1..Len(s) |-> IF i = find_stock(s, pid)
                         THEN [s[i] EXCEPT !.qty_l = new_qty] ELSE s[i]]

\* the loop of apply_last_plan from line i on: s is app.stock, list the list
\* object app.stock named as the handler started, which the farm still holds
RECURSIVE ApplyLines(_, _, _, _)
ApplyLines(lines, i, s, list) ==
    IF i > Len(lines) THEN [stock |-> s, list |-> list, raised |-> FALSE]
    ELSE LET pid == lines[i].product_id
         IN  IF find_stock(s, pid) = 0 THEN ApplyLines(lines, i + 1, s, list)
             ELSE LET new_qty == Fl(s[find_stock(s, pid)].qty_l - lines[i].sold_l)
                      s1 == WithQty(s, pid, new_qty)
                      list1 == WithQty(list, pid, new_qty)
                  IN  IF new_qty = 0
                      THEN IF delete_entry(s1, pid).raised
                           THEN [stock |-> delete_entry(s1, pid).stock,
                                 list |-> list1, raised |-> TRUE]
                           ELSE ApplyLines(lines, i + 1,
                                           delete_entry(s1, pid).stock, list1)
                      ELSE ApplyLines(lines, i + 1, s1, list1)

\* ObjectiveScreen.apply_last_plan
apply_last_plan ==
    /\ ~raised
    /\ IF app.last_plan = PyNone
       THEN UNCHANGED <<app, raised>>
       ELSE LET r == ApplyLines(app.last_plan.lines, 1, app.stock, app.stock)
            IN  IF r.raised
                THEN /\ raised' = TRUE
                     /\ app' = [app EXCEPT
                            !.stock = r.stock,
                            !.farms = FarmSet(@, app.current_farm_id,
                                [FarmOf(@, app.current_farm_id) EXCEPT
                                    !.stock = r.list])]
                ELSE /\ raised' = FALSE
                     /\ app' = _save_state([app EXCEPT !.stock = r.stock,
                                                       !.last_plan = PyNone])
    /\ UNCHANGED <<mant, optvars>>

\* SettingsScreen._do_create_farm
_do_create_farm ==
    /\ ~raised
    /\ Len(app.farms) < MaxFarms
    /\ \E fid \in FarmIds \ FarmKeys(app.farms) :
        LET a1 == _persist_current_farm(app)
            a2 == [a1 EXCEPT !.farms = FarmSet(@, fid, FarmData(<<>>, PyNone, {})),
                             !.current_farm_id = fid]
        IN  app' = _save_state(_load_current_farm(a2))
    /\ UNCHANGED <<raised, mant, optvars>>

\* a farm selected without being loaded
SelectFarmWithoutLoad ==
    /\ ~raised
    /\ \E fid \in FarmKeys(app.farms) :
        app' = _save_state([app EXCEPT !.current_farm_id = fid])
    /\ UNCHANGED <<raised, mant, optvars>>

\* SettingsScreen._select_farm, for a farm of the dialog's list
_select_farm ==
    /\ ~raised
    /\ \E fid \in FarmKeys(app.farms) :
        app' = _save_state(_load_current_farm([app EXCEPT !.current_farm_id = fid]))
    /\ UNCHANGED <<raised, mant, optvars>>

\* SettingsScreen._do_delete_farm
_do_delete_farm ==
    /\ ~raised
    /\ LET left == FarmPop(app.farms, app.current_farm_id)
       IN  IF left # <<>>
           THEN app' = _save_state(_load_current_farm(
                        [app EXCEPT !.farms = left, !.current_farm_id = left[1].id]))
           ELSE \E new_id \in FarmIds \ {app.current_farm_id} :
                  app' = _save_state(_load_current_farm(
                        [app EXCEPT
                            !.farms = FarmSet(left, new_id, FarmData(<<>>, PyNone, {})),
                            !.current_farm_id = new_id]))
    /\ UNCHANGED <<raised, mant, optvars>>

NextApp ==
    \/ confirm_add_from_catalog
    \/ create_custom_product
    \/ _confirm_edit
    \/ _delete_current
    \/ _do_reset_farm
    \/ calculate_objective_plan
    \/ apply_last_plan
    \/ _do_create_farm
    \/ _select_farm
    \/ _do_delete_farm

SpecApp == InitApp /\ [][NextApp]_vars


---------------------------------------------------------------------------
(* Applying the stored plan *)

\* the lines of a plan that name a product
LinesOf(p, pid) == {l \in 1..Len(p.lines) : p.lines[l].product_id = pid}

\* a call of apply_last_plan with a plan stored
AppliesPlan == apply_last_plan /\ app.last_plan # PyNone

\* what is left of an entry the stored plan names
LeftOf(e) ==
    Fl(e.qty_l - app.last_plan.lines[CHOOSE l \in LinesOf(app.last_plan, e.product_id) :
                                        TRUE].sold_l)

\* C22: applying the stored plan reduces the quantity of every entry a line
\* names by that line's sold_l, removes the entry when exactly nothing is
\* left of it, whether the product is of the catalog or custom, leaves every
\* other entry as it was, and leaves no plan stored.
C22_ApplyReducesAndRemoves ==
    [][AppliesPlan =>
        /\ app'.last_plan = PyNone
        /\ Len(app'.stock) <= Len(app.stock)
        /\ \A i \in 1..Len(app.stock) :
            LET e == app.stock[i]
                j == find_stock(app'.stock, e.product_id)
            IN  IF LinesOf(app.last_plan, e.product_id) = {}
                THEN j # 0 /\ app'.stock[j] = e
                ELSE IF LeftOf(e) = 0
                THEN j = 0
                ELSE j # 0 /\ app'.stock[j] = [e EXCEPT !.qty_l = LeftOf(e)]]_vars

\* the same of the plans that sell out no custom product
C22_ApplyCatalogOnly ==
    [][(AppliesPlan /\ ~raised') =>
        /\ app'.last_plan = PyNone
        /\ Len(app'.stock) <= Len(app.stock)
        /\ \A i \in 1..Len(app.stock) :
            LET e == app.stock[i]
                j == find_stock(app'.stock, e.product_id)
            IN  IF LinesOf(app.last_plan, e.product_id) = {}
                THEN j # 0 /\ app'.stock[j] = e
                ELSE IF LeftOf(e) = 0
                THEN j = 0
                ELSE j # 0 /\ app'.stock[j] = [e EXCEPT !.qty_l = LeftOf(e)]]_vars

---------------------------------------------------------------------------
(* The stored plan *)

\* the stored plan is the feasible plan optimize_min_trips makes of the stock
PlanIsCurrent(a) ==
    a.last_plan # PyNone =>
        /\ a.last_plan.feasible
        /\ a.last_plan = optimize_min_trips(opt_products(a.stock),
                                            a.last_plan.target_eur)

\* C28: while no handler has raised, a plan that is stored is the feasible plan
\* optimize_min_trips computes from the current stock, and applying a stored
\* plan leaves no product it names with less than its min_keep_l.
C28_StoredPlanIsCurrent ==
    [][~raised' =>
        /\ PlanIsCurrent(app')
        /\ AppliesPlan =>
            \A i \in 1..Len(app'.stock) :
                LinesOf(app.last_plan, app'.stock[i].product_id) # {}
                    => app'.stock[i].qty_l >= app'.stock[i].min_keep_l]_vars

\* the first half alone
C28_PlanIsCurrentOnly == [][~raised' => PlanIsCurrent(app')]_vars

---------------------------------------------------------------------------
(* The catalogs *)

\* the products the add-product screen lists
_catalog_values(a) == a.base_catalog

\* C29: create_custom_product leaves app.base_catalog as it was, so that no
\* custom product is among the products the add-product screen lists, and
\* the catalog of a farm holds the loaded catalog and that farm's own custom
\* products only.
C29_BaseCatalogUnchanged ==
    [][/\ create_custom_product => app'.base_catalog = app.base_catalog
       /\ _catalog_values(app') \cap CustomIds = {}
       /\ app'.catalog \subseteq CatalogIds \cup app'.user_catalog]_vars

---------------------------------------------------------------------------
(* The farms *)

\* C30: app.farms is never empty and app.current_farm_id is one of its keys;
\* while no handler has raised, the loaded stock and last_plan are those of
\* the current farm, and a step that makes another farm current loads the
\* stock and the plan this farm held.
C30_FarmSetInvariant ==
    [][/\ app'.farms # <<>>
       /\ app'.current_farm_id \in FarmKeys(app'.farms)
       /\ Cardinality(FarmKeys(app'.farms)) = Len(app'.farms)
       /\ ~raised' =>
            /\ app'.stock = FarmOf(app'.farms, app'.current_farm_id).stock
            /\ app'.last_plan = FarmOf(app'.farms, app'.current_farm_id).last_plan
       /\ (/\ app'.current_farm_id # app.current_farm_id
           /\ app'.current_farm_id \in FarmKeys(app.farms)) =>
            /\ app'.stock = FarmOf(app.farms, app'.current_farm_id).stock
            /\ app'.last_plan = FarmOf(app.farms, app'.current_farm_id).last_plan]_vars

\* two farms with different stocks, the older one current again with its stock
\* and its plan, and a single farm made after the last one was deleted
C30_Witness ==
    /\ app # <<>>
    /\ Len(app.farms) = MaxFarms
    /\ app.current_farm_id = app.farms[1].id
    /\ app.stock # <<>>
    /\ app.last_plan # PyNone
    /\ app.farms[2].farm.stock # app.stock
    /\ app.farms[2].farm.stock # <<>>

=============================================================================
